---- MODULE Spec2Model ----
(***************************************************************************)
(* aws-name-server: an authoritative DNS server whose zone is the live    *)
(* EC2/RDS inventory of one or more AWS accounts.                          *)
(*                                                                         *)
(* Strings whose content the code inspects (labels, tag values, question  *)
(* names, addresses) are sequences of one-character strings, so that      *)
(* splitting, parsing and sanitizing are computed as the code computes    *)
(* them.  Strings the code only compares as a whole (tag keys, error      *)
(* texts, program counters) are plain strings.                            *)
(***************************************************************************)
EXTENDS Integers, Sequences, FiniteSets, TLC

VARIABLES
    proc,         \* the process: "init" (in NewCaches), "serving", "exited", "panicked"
    initIdx,      \* NewCaches: index of the cache whose initial refresh is next
    records,      \* records[c]: Cache.records, the published map of cache c
    rpc,          \* rpc[c]: position of the refresh() running on cache c
    local,        \* local[c]: refresh()'s local variable records
    fetched,      \* fetched[c]: refresh()'s locals databaseResult, instancesResult
    err,          \* err[c]: what the last refresh() of cache c returned
    before,       \* before[c]: Cache.records when the running refresh() was entered
    tickPending,  \* tickPending[c]: a tick waits in the channel of c's time.Tick
    now,          \* the clock, in milliseconds
    lastReq,      \* the request last given to handleRequest
    lastLookup,   \* per question of lastReq, what NameServer.Lookup returned
    reply,        \* the message handleRequest built for lastReq
    written,      \* number of WriteMsg calls made for lastReq
    mutex,        \* mutex[c]: Cache.mutex, "free" or "W" (held by a writer)
    running,      \* running[c]: calls of refresh() on cache c that have not returned
    tagIn,        \* sanitize: the argument of the call under test
    tagOut        \* sanitize: what the call returned

vars == <<proc, initIdx, records, rpc, local, fetched, err, before,
          tickPending, now, lastReq, lastLookup, reply, written,
          mutex, running, tagIn, tagOut>>

-----------------------------------------------------------------------------
(* Strings *)

Upper == <<"A","B","C","D","E","F","G","H","I","J","K","L","M",
           "N","O","P","Q","R","S","T","U","V","W","X","Y","Z">>

Lower == <<"a","b","c","d","e","f","g","h","i","j","k","l","m",
           "n","o","p","q","r","s","t","u","v","w","x","y","z">>

Digits == <<"0","1","2","3","4","5","6","7","8","9">>

Range(s) == {s[i] : i \in DOMAIN s}

IndexIn(c, s) == CHOOSE i \in DOMAIN s : s[i] = c

\* strings.ToLower, one character
LowerChar(c) == IF c \in Range(Upper) THEN Lower[IndexIn(c, Upper)] ELSE c

\* strings.ToLower
ToLower(s) == [i \in DOMAIN s |-> LowerChar(s[i])]

\* the class [\w-] of SANE_DNS_NAME and SANE_DNS_REPL: \w is [0-9A-Za-z_]
IsSaneChar(c) == c \in Range(Upper) \cup Range(Lower) \cup Range(Digits) \cup {"_", "-"}

\* SANE_DNS_NAME.MatchString: ^[\w-]+$
SANE_DNS_NAME(s) == Len(s) > 0 /\ \A i \in DOMAIN s : IsSaneChar(s[i])

\* a replacement of each character outside [\w-], one by one
ReplaceEachChar(s) == [i \in DOMAIN s |-> IF IsSaneChar(s[i]) THEN s[i] ELSE "-"]

\* SANE_DNS_REPL.ReplaceAllString(s, "-"): each maximal run of characters
\* outside [\w-] becomes one hyphen
RECURSIVE SANE_DNS_REPL(_)
SANE_DNS_REPL(s) ==
    IF s = <<>> THEN <<>>
    ELSE IF IsSaneChar(s[1]) THEN <<s[1]>> \o SANE_DNS_REPL(Tail(s))
    ELSE IF Len(s) > 1 /\ ~IsSaneChar(s[2]) THEN SANE_DNS_REPL(Tail(s))
    ELSE <<"-">> \o SANE_DNS_REPL(Tail(s))

sanitize(tag) ==
    LET out == ToLower(tag)
    IN  IF SANE_DNS_NAME(out) THEN out ELSE SANE_DNS_REPL(out)

\* strings.HasSuffix
HasSuffix(s, suffix) ==
    /\ Len(suffix) <= Len(s)
    /\ SubSeq(s, Len(s) - Len(suffix) + 1, Len(s)) = suffix

\* strings.TrimSuffix
TrimSuffix(s, suffix) ==
    IF HasSuffix(s, suffix) THEN SubSeq(s, 1, Len(s) - Len(suffix)) ELSE s

\* strings.Split(s, "."): the empty string splits into one empty part
RECURSIVE Split(_)
Split(s) ==
    IF \A i \in DOMAIN s : s[i] /= "." THEN <<s>>
    ELSE LET i == CHOOSE k \in DOMAIN s :
                      s[k] = "." /\ \A j \in 1..(k - 1) : s[j] /= "."
         IN  <<SubSeq(s, 1, i - 1)>> \o Split(SubSeq(s, i + 1, Len(s)))

\* the value of a non-empty string of decimal digits
RECURSIVE DigitsValue(_)
DigitsValue(s) ==
    IF s = <<>> THEN 0
    ELSE 10 * DigitsValue(SubSeq(s, 1, Len(s) - 1)) + (IndexIn(s[Len(s)], Digits) - 1)

AllDigits(s) == Len(s) > 0 /\ \A i \in DOMAIN s : s[i] \in Range(Digits)

\* strconv.Atoi: an optional sign, then one or more decimal digits.  The
\* labels of the model are far too short to leave the range of int.
Atoi(s) ==
    LET signed == Len(s) > 0 /\ s[1] \in {"+", "-"}
        body   == IF signed THEN Tail(s) ELSE s
    IN  IF ~AllDigits(body) THEN [err |-> TRUE, i |-> 0]
        ELSE [err |-> FALSE,
              i   |-> IF signed /\ s[1] = "-" THEN 0 - DigitsValue(body)
                      ELSE DigitsValue(body)]

\* the nil net.IP
NoIP == <<>>

\* net.ParseIP on dotted-quad text: four decimal fields of at most 255, or
\* nil.  IPv6 text is not part of the model.
ParseIP(s) ==
    LET parts == Split(s)
    IN  IF /\ Len(parts) = 4
           /\ \A i \in 1..4 : AllDigits(parts[i]) /\ Len(parts[i]) <= 3
           /\ \A i \in 1..4 : DigitsValue(parts[i]) <= 255
        THEN [i \in 1..4 |-> DigitsValue(parts[i])]
        ELSE NoIP

-----------------------------------------------------------------------------
(* Records and the maps of a cache *)

\* time.Second, in the unit of the clock: times and durations are whole
\* milliseconds
Second == 1000

\* const TTL = 1 * time.Minute
TTL == 60 * Second

LOOKUP_NAME == 0

LOOKUP_ROLE == 1

\* the zero time.Time of a Record{} whose ValidUntil is never set: earlier
\* than every reading of the clock
ZeroTime == -1

\* A pointer field of an API response is a sequence of at most one element:
\* the nil pointer is the empty one, and Deref is the * of the code.
Nil == <<>>

Ptr(v) == <<v>>

Deref(p) == p[1]

Key(tag, label) == [tag |-> tag, label |-> label]

\* Record{}: the zero value
ZeroRecord == [CName |-> <<>>, PublicIP |-> NoIP, PrivateIP |-> NoIP,
               ValidUntil |-> ZeroTime]

\* make(map[Key][]*Record)
EmptyMap == <<>>

\* m[k] of a Go map: the nil slice for a missing key
MapGet(m, k) == IF k \in DOMAIN m THEN m[k] ELSE <<>>

\* m[k] = v
MapPut(m, k, v) == [x \in DOMAIN m \cup {k} |-> IF x = k THEN v ELSE m[x]]

\* m[k] = append(m[k], r)
MapAppend(m, k, r) == MapPut(m, k, Append(MapGet(m, k), r))

\* for k, v := range src { dst[k] = v }
MergeInto(dst, src) ==
    [x \in DOMAIN dst \cup DOMAIN src |-> IF x \in DOMAIN src THEN src[x] ELSE dst[x]]

\* the loop over instance.Tags of createInstanceRecords
RECURSIVE IndexTags(_, _, _)
IndexTags(m, tags, record) ==
    IF tags = <<>> THEN m
    ELSE LET tag   == Head(tags)
             m1    == IF tag.Key = "Name"
                      THEN MapAppend(m, Key(LOOKUP_NAME, sanitize(tag.Value)), record)
                      ELSE m
             m2    == IF tag.Key = "Role"
                      THEN MapAppend(m1, Key(LOOKUP_ROLE, sanitize(tag.Value)), record)
                      ELSE m1
         IN  IndexTags(m2, Tail(tags), record)

\* createInstanceRecords without the entry under the instance id
IndexInstanceTagsOnly(m, instance, t) ==
    LET record == [ZeroRecord EXCEPT
                     !.ValidUntil = t + TTL,
                     !.PrivateIP  = IF instance.PrivateIpAddress /= Nil
                                    THEN ParseIP(Deref(instance.PrivateIpAddress))
                                    ELSE NoIP]
    IN  IndexTags(m, instance.Tags, record)

\* the body of createInstanceRecords' inner loop, for one instance
IndexInstance(m, instance, t) ==
    LET record == [ZeroRecord EXCEPT
                     !.ValidUntil = t + TTL,
                     !.PrivateIP  = IF instance.PrivateIpAddress /= Nil
                                    THEN ParseIP(Deref(instance.PrivateIpAddress))
                                    ELSE NoIP]
        byId   == MapAppend(m, Key(LOOKUP_NAME, instance.InstanceId), record)
    IN  IndexTags(byId, instance.Tags, record)

RECURSIVE IndexInstances(_, _, _)
IndexInstances(m, instances, t) ==
    IF instances = <<>> THEN m
    ELSE IndexInstances(IndexInstance(m, Head(instances), t), Tail(instances), t)

RECURSIVE IndexReservations(_, _, _)
IndexReservations(m, reservations, t) ==
    IF reservations = <<>> THEN m
    ELSE IndexReservations(IndexInstances(m, Head(reservations), t),
                           Tail(reservations), t)

\* createInstanceRecords; t is the reading of time.Now()
createInstanceRecords(instancesResult, t) ==
    IndexReservations(EmptyMap, instancesResult, t)

\* createDatabaseRecords dereferences r.Endpoint of every instance: a
\* response with a nil Endpoint makes it panic
DatabasesPanic(databaseResult) ==
    \E i \in DOMAIN databaseResult : databaseResult[i].Endpoint = Nil

RECURSIVE IndexDatabases(_, _)
IndexDatabases(m, dbs) ==
    IF dbs = <<>> THEN m
    ELSE LET r      == Head(dbs)
             addr   == Deref(r.Endpoint).Address
             record == [ZeroRecord EXCEPT !.CName = addr \o <<".">>]
             m1     == IF addr /= <<>>
                       THEN MapAppend(m, Key(LOOKUP_NAME, sanitize(r.DBInstanceIdentifier)),
                                      record)
                       ELSE m
         IN  IndexDatabases(m1, Tail(dbs))

\* createDatabaseRecords, for a response it does not panic on
createDatabaseRecords(databaseResult) == IndexDatabases(EmptyMap, databaseResult)

\* the map a refresh() builds from what the two fetches answered at time t
BuildRecords(databaseResult, instancesResult, t) ==
    MergeInto(MergeInto(EmptyMap, createDatabaseRecords(databaseResult)),
              createInstanceRecords(instancesResult, t))

\* Cache.Lookup: under the read lock, cache.records[Key{tag, value}]
CacheLookup(c, tag, value) == MapGet(records[c], Key(tag, value))

\* Cache.Size
Size(c) == Cardinality(DOMAIN records[c])

-----------------------------------------------------------------------------
(* Configuration and the cloud *)

\* the sub accounts of the configuration file, in its order
Accounts == << [NickName |-> "prod", Arn |-> "arn:aws:iam::1:role/ns",
                Region |-> "us-east-1"] >>

\* the account the server runs in: no role to assume
MainAccount == [NickName |-> "main", Arn |-> "", Region |-> "us-east-1"]

\* NewCaches makes one cache per sub account, then the one of the main account
NumCaches == Len(Accounts) + 1

CacheIds == 1..NumCaches

awsAccount(c) == IF c <= Len(Accounts) THEN Accounts[c] ELSE MainAccount

sWeb == <<"w","e","b">>

sWebCap == <<"W","e","b">>

sApi == <<"a","p","i">>

sApiSp == <<"A","P"," ","I">>

sDb == <<"d","b">>

sDbCap == <<"D","B">>

sNew == <<"n","e","w">>

sRole == <<"r","o","l","e">>

sId1 == <<"i","-","1">>

sId2 == <<"i","-","2">>

sId3 == <<"i","-","3">>

sId4 == <<"i","-","4">>

sIp1 == <<"1","0",".","0",".","0",".","1">>

sIp2 == <<"1","0",".","0",".","0",".","2">>

sIp3 == <<"1","0",".","0",".","0",".","3">>

sEndA == <<"a",".","r","d","s">>

sEndB == <<"b",".","r","d","s">>

Tag(k, v) == [Key |-> k, Value |-> v]

Instance(id, ip, tags) == [InstanceId |-> id, PrivateIpAddress |-> ip, Tags |-> tags]

DBInstance(id, endpoint) == [DBInstanceIdentifier |-> id, Endpoint |-> endpoint]

Endpoint(address) == Ptr([Address |-> address])

inst1 == Instance(sId1, Ptr(sIp1), <<Tag("Name", sWebCap), Tag("Role", sApi)>>)

inst2 == Instance(sId2, Ptr(sIp2), <<Tag("Role", sApiSp), Tag("Name", sWeb)>>)

inst3 == Instance(sId3, Ptr(sIp3), <<Tag("Name", sDb), Tag("Env", sWeb)>>)

\* an instance without a private address, named "role"
inst4 == Instance(sId4, Nil, <<Tag("Name", sRole)>>)

dbA == DBInstance(sDb, Endpoint(sEndA))

dbB == DBInstance(sDbCap, Endpoint(sEndB))

dbEmpty == DBInstance(sNew, Endpoint(<<>>))

dbCreating == DBInstance(sNew, Nil)

\* what DescribeDBInstances may answer in the account of cache c: the
\* DBInstances of the output
DBResponses(c) ==
    IF awsAccount(c).Arn /= ""
    THEN { <<>>, <<dbB>> }
    ELSE { <<>>, <<dbA>>, <<dbA, dbEmpty, dbB>>, <<dbA, dbCreating>> }

\* what DescribeInstances may answer in the account of cache c: the
\* Reservations of the output, each a list of running instances
InstanceResponses(c) ==
    IF awsAccount(c).Arn /= ""
    THEN { << <<inst2>> >>, << <<inst2, inst3>> >> }
    ELSE { <<>>, << <<inst1, inst2>> >>, << <<inst3>>, <<inst4, inst1>> >> }

-----------------------------------------------------------------------------
(* The process: NewCaches, refresh and the background tasks *)

\* time.Tick(15 * time.Second)
TickInterval == 15 * Second

\* the clock stops after this many tick intervals
MaxTicks == 1

NoFetch == [db |-> <<>>, inst |-> <<>>]

\* the goroutine of cache c has been started: NewCaches starts it once the
\* initial refresh of c has returned nil
Started(c) == c < initIdx

\* no request has been handled yet, or the handler of the last one has returned
NoRequest == <<>>

\* The process runs.  A request is handled in one step, and the step after
\* it is the return of its handler: lastReq, lastLookup, reply and written
\* show the handler's locals, which no other step reads.
Alive == proc \in {"init", "serving"} /\ lastReq = NoRequest

\* a refresh() that holds the lock of the cache from its entry on
RefreshEnterLocked(c) ==
    /\ rpc' = [rpc EXCEPT ![c] = "session"]
    /\ local' = [local EXCEPT ![c] = EmptyMap]
    /\ before' = [before EXCEPT ![c] = records[c]]
    /\ fetched' = [fetched EXCEPT ![c] = NoFetch]
    /\ err' = [err EXCEPT ![c] = "nil"]
    /\ running' = [running EXCEPT ![c] = @ + 1]
    /\ mutex' = [mutex EXCEPT ![c] = "W"]

\* entry of refresh(): records := make(map[Key][]*Record)
RefreshEnter(c) ==
    /\ rpc' = [rpc EXCEPT ![c] = "session"]
    /\ local' = [local EXCEPT ![c] = EmptyMap]
    /\ before' = [before EXCEPT ![c] = records[c]]
    /\ fetched' = [fetched EXCEPT ![c] = NoFetch]
    /\ err' = [err EXCEPT ![c] = "nil"]
    /\ running' = [running EXCEPT ![c] = @ + 1]
    /\ UNCHANGED mutex

\* a refresh() that publishes what it has built so far before it returns an
\* error
RefreshFailPublishing(c, e) ==
    /\ rpc' = [rpc EXCEPT ![c] = "returned"]
    /\ err' = [err EXCEPT ![c] = e]
    /\ records' = [records EXCEPT ![c] = local[c]]

\* return err: Cache.records is not touched
RefreshFail(c, e) ==
    /\ rpc' = [rpc EXCEPT ![c] = "returned"]
    /\ err' = [err EXCEPT ![c] = e]
    /\ UNCHANGED records

\* NewCaches: subAccountCache.refresh() / instanceAccountCache.refresh()
InitialRefresh ==
    /\ proc = "init"
    /\ rpc[initIdx] = "idle"
    /\ RefreshEnter(initIdx)
    /\ UNCHANGED <<proc, initIdx, records, tickPending, now,
                   lastReq, lastLookup, reply, written>>
    /\ UNCHANGED <<tagIn, tagOut>>

\* the goroutine of cache c: for range time.Tick(...) { err := cache.refresh() ...
TaskRefresh(c) ==
    /\ Alive
    /\ Started(c)
    /\ rpc[c] = "idle"
    /\ tickPending[c]
    /\ tickPending' = [tickPending EXCEPT ![c] = FALSE]
    /\ RefreshEnter(c)
    /\ UNCHANGED <<proc, initIdx, records, now, lastReq, lastLookup, reply, written>>
    /\ UNCHANGED <<tagIn, tagOut>>

\* session.NewSession(&aws.Config{Region: ...})
NewSession(c) ==
    /\ Alive
    /\ rpc[c] = "session"
    /\ \/ /\ rpc' = [rpc EXCEPT ![c] = IF awsAccount(c).Arn /= "" THEN "assume"
                                                                 ELSE "databases"]
          /\ UNCHANGED <<err, records>>
       \/ RefreshFail(c, "NewSession")
    /\ UNCHANGED <<proc, initIdx, local, fetched, before, tickPending, now,
                   lastReq, lastLookup, reply, written>>
    /\ UNCHANGED <<mutex, running, tagIn, tagOut>>

\* stsAuth.AssumeRole(...)
AssumeRole(c) ==
    /\ Alive
    /\ rpc[c] = "assume"
    /\ \/ /\ rpc' = [rpc EXCEPT ![c] = "session2"]
          /\ UNCHANGED <<err, records>>
       \/ RefreshFail(c, "AssumeRole")
    /\ UNCHANGED <<proc, initIdx, local, fetched, before, tickPending, now,
                   lastReq, lastLookup, reply, written>>
    /\ UNCHANGED <<mutex, running, tagIn, tagOut>>

\* session.NewSession(config) with the temporary credentials
NewRoleSession(c) ==
    /\ Alive
    /\ rpc[c] = "session2"
    /\ \/ /\ rpc' = [rpc EXCEPT ![c] = "databases"]
          /\ UNCHANGED <<err, records>>
       \/ RefreshFail(c, "NewSession")
    /\ UNCHANGED <<proc, initIdx, local, fetched, before, tickPending, now,
                   lastReq, lastLookup, reply, written>>
    /\ UNCHANGED <<mutex, running, tagIn, tagOut>>

\* a refresh() that writes the fetched records into the published map
MergeRecordsInPlace(c, m) ==
    /\ local' = [local EXCEPT ![c] = MergeInto(local[c], m)]
    /\ records' = [records EXCEPT ![c] = MergeInto(records[c], m)]

\* for k, v := range m { records[k] = v }, on the local map of refresh()
MergeRecords(c, m) ==
    /\ local' = [local EXCEPT ![c] = MergeInto(local[c], m)]
    /\ UNCHANGED records

\* cache.Databases(mySession), createDatabaseRecords and the merge into records
FetchDatabases(c) ==
    /\ Alive
    /\ rpc[c] = "databases"
    /\ \/ /\ RefreshFail(c, "DescribeDBInstances")
          /\ UNCHANGED <<proc, local, fetched>>
       \/ \E databaseResult \in DBResponses(c) :
             IF DatabasesPanic(databaseResult)
             THEN /\ proc' = "panicked"
                  /\ rpc' = [rpc EXCEPT ![c] = "panic"]
                  /\ UNCHANGED <<err, local, fetched, records>>
             ELSE /\ MergeRecords(c, createDatabaseRecords(databaseResult))
                  /\ fetched' = [fetched EXCEPT ![c].db = databaseResult]
                  /\ rpc' = [rpc EXCEPT ![c] = "instances"]
                  /\ UNCHANGED <<proc, err>>
    /\ UNCHANGED <<initIdx, before, tickPending, now,
                   lastReq, lastLookup, reply, written>>
    /\ UNCHANGED <<mutex, running, tagIn, tagOut>>

\* cache.Instances(mySession), createInstanceRecords and the merge into records
FetchInstances(c) ==
    /\ Alive
    /\ rpc[c] = "instances"
    /\ \/ /\ RefreshFail(c, "DescribeInstances")
          /\ UNCHANGED <<local, fetched>>
       \/ \E instancesResult \in InstanceResponses(c) :
             /\ MergeRecords(c, createInstanceRecords(instancesResult, now))
             /\ fetched' = [fetched EXCEPT ![c].inst = instancesResult]
             /\ rpc' = [rpc EXCEPT ![c] = "setRecords"]
             /\ UNCHANGED err
    /\ UNCHANGED <<proc, initIdx, before, tickPending, now,
                   lastReq, lastLookup, reply, written>>
    /\ UNCHANGED <<mutex, running, tagIn, tagOut>>

\* cache.setRecords(records): cache.mutex.Lock(), then cache.records = records.
\* The handlers of the model hold the read lock within one step, so the
\* write lock is free to take whenever this step is taken.
setRecords(c) ==
    /\ Alive
    /\ rpc[c] = "setRecords"
    /\ mutex[c] = "free"
    /\ mutex' = [mutex EXCEPT ![c] = "W"]
    /\ records' = [records EXCEPT ![c] = local[c]]
    /\ rpc' = [rpc EXCEPT ![c] = "unlock"]
    /\ UNCHANGED <<proc, initIdx, local, fetched, err, before, tickPending, now,
                   lastReq, lastLookup, reply, written>>
    /\ UNCHANGED <<running, tagIn, tagOut>>

\* the deferred cache.mutex.Unlock() of setRecords; refresh() returns nil
Unlock(c) ==
    /\ Alive
    /\ rpc[c] = "unlock"
    /\ mutex' = [mutex EXCEPT ![c] = "free"]
    /\ rpc' = [rpc EXCEPT ![c] = "returned"]
    /\ UNCHANGED <<proc, initIdx, records, local, fetched, err, before, tickPending,
                   now, lastReq, lastLookup, reply, written>>
    /\ UNCHANGED <<running, tagIn, tagOut>>

\* the locals of a refresh() that has returned are gone
RefreshLeave(c) ==
    /\ rpc' = [rpc EXCEPT ![c] = "idle"]
    /\ local' = [local EXCEPT ![c] = EmptyMap]
    /\ before' = [before EXCEPT ![c] = EmptyMap]
    /\ fetched' = [fetched EXCEPT ![c] = NoFetch]
    /\ err' = [err EXCEPT ![c] = "nil"]
    /\ running' = [running EXCEPT ![c] = @ - 1]

\* a NewCaches that does not wait for the refresh() it called: it starts the
\* goroutine of the cache and goes on while the refresh runs
InitialRefreshReturnedEarly ==
    /\ proc = "init"
    /\ rpc[initIdx] \notin {"idle", "panic"}
    /\ initIdx' = initIdx + 1
    /\ proc' = IF initIdx = NumCaches THEN "serving" ELSE "init"
    /\ UNCHANGED <<records, rpc, local, fetched, err, before, running,
                   tickPending, now, lastReq, lastLookup, reply, written>>
    /\ UNCHANGED <<mutex, tagIn, tagOut>>

\* NewCaches after a refresh(): on an error return it (main then calls
\* log.Fatalf); else start the goroutine, append the cache and go on.  After
\* the last cache main builds the name server and listens.
InitialRefreshReturned ==
    /\ proc = "init"
    /\ rpc[initIdx] = "returned"
    /\ RefreshLeave(initIdx)
    /\ IF err[initIdx] /= "nil"
       THEN proc' = "exited" /\ UNCHANGED initIdx
       ELSE /\ initIdx' = initIdx + 1
            /\ proc' = IF initIdx = NumCaches THEN "serving" ELSE "init"
    /\ UNCHANGED <<records, tickPending, now, lastReq, lastLookup, reply, written>>
    /\ UNCHANGED <<mutex, tagIn, tagOut>>

\* a background task that ends the process when its refresh() fails
TaskRefreshReturnedFatal(c) ==
    /\ Alive
    /\ Started(c)
    /\ rpc[c] = "returned"
    /\ RefreshLeave(c)
    /\ proc' = IF err[c] /= "nil" THEN "exited" ELSE proc
    /\ UNCHANGED <<initIdx, records, tickPending, now,
                   lastReq, lastLookup, reply, written>>
    /\ UNCHANGED <<mutex, tagIn, tagOut>>

\* the goroutine of cache c after refresh(): log the error, wait for a tick
TaskRefreshReturned(c) ==
    /\ Alive
    /\ Started(c)
    /\ rpc[c] = "returned"
    /\ RefreshLeave(c)
    /\ UNCHANGED <<proc, initIdx, records, tickPending, now,
                   lastReq, lastLookup, reply, written>>
    /\ UNCHANGED <<mutex, tagIn, tagOut>>

\* 15 seconds pass: every running ticker puts a tick in its channel, which
\* holds one
Advance ==
    /\ Alive
    /\ now < MaxTicks * TickInterval
    /\ now' = now + TickInterval
    /\ tickPending' = [c \in CacheIds |-> Started(c)]
    /\ UNCHANGED <<proc, initIdx, records, rpc, local, fetched, err, before,
                   lastReq, lastLookup, reply, written>>
    /\ UNCHANGED <<mutex, running, tagIn, tagOut>>

-----------------------------------------------------------------------------
(* The name server *)

\* --domain and --hostname as given on the command line
DomainFlag == <<"a","w","s">>

HostnameFlag == <<"n","s">>

\* NewNameServer: domain and hostname get a final dot if they lack one
domain == IF HasSuffix(DomainFlag, <<".">>) THEN DomainFlag ELSE DomainFlag \o <<".">>

hostname == IF HasSuffix(HostnameFlag, <<".">>) THEN HostnameFlag
            ELSE HostnameFlag \o <<".">>

\* s.caches: what NewCaches returned, sub accounts first, main account last
caches == [i \in 1..NumCaches |-> i]

\* a Record.TTL without the grace value of an expired record
RecordTTLNoGrace(record, t) == record.ValidUntil - t

\* Record.TTL(now): a duration
RecordTTL(record, t) ==
    IF t > record.ValidUntil THEN 10 * Second ELSE record.ValidUntil - t

\* a conversion to seconds that rounds to the nearest second
SecondsRounded(d) == (d + Second \div 2) \div Second

\* uint32(d / time.Second): the integer division drops the fraction of a
\* second.  The durations of Record.TTL are never negative, and far below
\* 2^32 seconds, where the conversion to uint32 changes nothing.
Seconds(d) == d \div Second

\* NameServer.SOA; t is the reading of time.Now()
SOA(t) ==
    [Hdr     |-> [Name |-> domain, Rrtype |-> "SOA", Class |-> "IN", Ttl |-> 60],
     Ns      |-> hostname,
     Serial  |-> t \div Second,
     Refresh |-> 86400,
     Retry   |-> 7200,
     Expire  |-> 86400,
     Minttl  |-> 60,
     Mbox    |-> <<"h","o","s","t","m","a","s","t","e","r",".">>]

\* a role test that does not ask for more than one label
HasRoleSuffixAlone(parts) == parts[Len(parts)] = sRole

\* NameServer.Lookup, "handle role lookup": the last of several labels is "role"
HasRoleSuffix(parts) == Len(parts) > 1 /\ parts[Len(parts)] = sRole

\* parts = parts[:len(parts)-1]
CutRole(parts) ==
    IF HasRoleSuffix(parts) THEN SubSeq(parts, 1, Len(parts) - 1) ELSE parts

\* NameServer.Lookup, "handle nth lookup": strconv.Atoi(parts[0]) when more
\* than one label is left
IndexOf(parts) ==
    IF Len(parts) > 1 THEN Atoi(parts[1]) ELSE [err |-> TRUE, i |-> 0]

\* the variables of NameServer.Lookup once the name is parsed.  hostNick was
\* sliced from parts before the role suffix was cut off (hostNick0), and is
\* set again only when an index is found.
Parsed(tag, hostNick0, parts, i) ==
    [tag      |-> tag,
     parts    |-> parts,
     nth      |-> IF i.err THEN 0 ELSE i.i,
     hostNick |-> IF i.err THEN hostNick0 ELSE Tail(parts)]

ParseIndex(tag, hostNick0, parts) == Parsed(tag, hostNick0, parts, IndexOf(parts))

ParseLabels(parts0) ==
    ParseIndex(IF HasRoleSuffix(parts0) THEN LOOKUP_ROLE ELSE LOOKUP_NAME,
               parts0, CutRole(parts0))

\* the first part of NameServer.Lookup: the labels before the served domain,
\* the role suffix and the index
ParseName(name) == ParseLabels(Split(TrimSuffix(name, <<".">> \o domain)))

\* a loop over s.caches that puts the records of later caches first
RECURSIVE AggregateReversed(_, _, _)
AggregateReversed(cs, tag, label) ==
    IF cs = <<>> THEN <<>>
    ELSE AggregateReversed(Tail(cs), tag, label) \o CacheLookup(Head(cs), tag, label)

\* the loop of NameServer.Lookup over s.caches
RECURSIVE Aggregate(_, _, _)
Aggregate(cs, tag, label) ==
    IF cs = <<>> THEN <<>>
    ELSE CacheLookup(Head(cs), tag, label) \o Aggregate(Tail(cs), tag, label)

\* an end of NameServer.Lookup that counts the records from 1
SelectNthFromOne(parts, nth, results) ==
    IF Len(parts) > 1
    THEN IF nth > Len(results) THEN [panic |-> FALSE, result |-> <<>>]
         ELSE IF nth < 1 THEN [panic |-> TRUE, result |-> <<>>]
         ELSE [panic |-> FALSE, result |-> SubSeq(results, nth, nth)]
    ELSE [panic |-> FALSE, result |-> results]

\* the end of NameServer.Lookup: results[nth : nth+1] of the code panics on
\* a negative nth
SelectNth(parts, nth, results) ==
    IF Len(parts) > 1
    THEN IF nth >= Len(results) THEN [panic |-> FALSE, result |-> <<>>]
         ELSE IF nth < 0 THEN [panic |-> TRUE, result |-> <<>>]
         ELSE [panic |-> FALSE, result |-> SubSeq(results, nth + 1, nth + 1)]
    ELSE [panic |-> FALSE, result |-> results]

\* NameServer.Lookup from the "badly formed" test on
LookupParsed(p) ==
    IF Len(p.hostNick) /= 1 \/ p.hostNick[1] = <<>>
    THEN [panic |-> FALSE, result |-> <<>>]
    ELSE SelectNth(p.parts, p.nth, Aggregate(caches, p.tag, p.hostNick[1]))

\* NameServer.Lookup
Lookup(name) == LookupParsed(ParseName(name))

\* a loop body that does not look at the question type
AnswerRecordAnyQtype(msg, record, ttl) ==
    IF record.CName /= <<>>
    THEN << [Hdr |-> [Name |-> msg.Name, Rrtype |-> "CNAME", Class |-> "IN", Ttl |-> ttl],
             Target |-> record.CName] >>
    ELSE << [Hdr |-> [Name |-> msg.Name, Rrtype |-> "A", Class |-> "IN", Ttl |-> ttl],
             A |-> record.PrivateIP] >>

\* one round of the loop of NameServer.Answer: the answer made from a record
AnswerRecord(msg, record, ttl) ==
    IF msg.Qtype /= "A" THEN <<>>
    ELSE IF record.CName /= <<>>
    THEN << [Hdr |-> [Name |-> msg.Name, Rrtype |-> "CNAME", Class |-> "IN", Ttl |-> ttl],
             Target |-> record.CName] >>
    ELSE << [Hdr |-> [Name |-> msg.Name, Rrtype |-> "A", Class |-> "IN", Ttl |-> ttl],
             A |-> record.PrivateIP] >>

\* the loop of NameServer.Answer over the records of Lookup
RECURSIVE AnswerRecords(_, _, _)
AnswerRecords(msg, rs, t) ==
    IF rs = <<>> THEN <<>>
    ELSE AnswerRecord(msg, Head(rs), Seconds(RecordTTL(Head(rs), t)))
         \o AnswerRecords(msg, Tail(rs), t)

NotCalled == [called |-> FALSE, panic |-> FALSE, result |-> <<>>]

\* NameServer.Answer after its call of Lookup returned l
AnswerLookup(msg, l, t) ==
    [panic   |-> l.panic,
     lookup  |-> [called |-> TRUE, panic |-> l.panic, result |-> l.result],
     answers |-> AnswerRecords(msg, l.result, t)]

\* an Answer that gives NS and SOA for every name
AnswerAnyName(msg, t) ==
    IF msg.Qtype = "NS"
    THEN [panic |-> FALSE, lookup |-> NotCalled,
          answers |-> << [Hdr |-> [Name |-> msg.Name, Rrtype |-> "NS",
                                   Class |-> "IN", Ttl |-> 300],
                          Ns  |-> hostname] >>]
    ELSE IF msg.Qtype = "SOA"
    THEN [panic |-> FALSE, lookup |-> NotCalled, answers |-> <<SOA(t)>>]
    ELSE AnswerLookup(msg, Lookup(msg.Name), t)

\* NameServer.Answer: the answers, whether it panicked, and what its call
\* of Lookup (if any) returned
Answer(msg, t) ==
    IF msg.Qtype = "NS"
    THEN [panic |-> FALSE, lookup |-> NotCalled,
          answers |-> IF msg.Name = domain
                      THEN << [Hdr |-> [Name |-> msg.Name, Rrtype |-> "NS",
                                        Class |-> "IN", Ttl |-> 300],
                               Ns  |-> hostname] >>
                      ELSE <<>>]
    ELSE IF msg.Qtype = "SOA"
    THEN [panic |-> FALSE, lookup |-> NotCalled,
          answers |-> IF msg.Name = domain THEN <<SOA(t)>> ELSE <<>>]
    ELSE AnswerLookup(msg, Lookup(msg.Name), t)

\* r := new(dns.Msg); r.SetReply(request)
NewReply == [Authoritative |-> FALSE, Answer |-> <<>>, Ns |-> <<>>]

\* the body of handleRequest's loop once Answer returned answers
AppendAnswers(r, answers, t) ==
    IF Len(answers) > 0
    THEN [r EXCEPT !.Answer = r.Answer \o answers]
    ELSE [r EXCEPT !.Ns = Append(r.Ns, SOA(t))]

\* the loop of handleRequest over request.Question, from reply r on; a panic
\* of Answer ends it
RECURSIVE AnswerQuestions(_, _, _, _)
RECURSIVE AnswerQuestion(_, _, _, _, _)
AnswerQuestion(questions, r, lookups, t, a) ==
    IF a.panic
    THEN [panic |-> TRUE, r |-> r, lookups |-> Append(lookups, a.lookup)]
    ELSE AnswerQuestions(Tail(questions), AppendAnswers(r, a.answers, t),
                         Append(lookups, a.lookup), t)

AnswerQuestions(questions, r, lookups, t) ==
    IF questions = <<>> THEN [panic |-> FALSE, r |-> r, lookups |-> lookups]
    ELSE AnswerQuestion(questions, r, lookups, t, Answer(Head(questions), t))

\* the end of handleRequest: w.WriteMsg(r).  A panic in the handler's
\* goroutine is not recovered: no reply is written and the process ends.
WriteMsg(request, out) ==
    /\ lastReq' = <<request>>
    /\ lastLookup' = out.lookups
    /\ IF out.panic
       THEN /\ proc' = "panicked"
            /\ reply' = NewReply
            /\ written' = 0
       ELSE /\ proc' = proc
            /\ reply' = out.r
            /\ written' = 1

\* NameServer.handleRequest.  Cache.Lookup takes the read lock of the cache
\* it reads, so the handler, one step of the model, runs when no writer
\* holds a lock.
handleRequest(request) ==
    /\ proc = "serving"
    /\ lastReq = NoRequest
    /\ \A c \in CacheIds : mutex[c] /= "W"
    /\ WriteMsg(request, AnswerQuestions(request.Question,
                                         [NewReply EXCEPT !.Authoritative = TRUE],
                                         <<>>, now))
    /\ UNCHANGED <<initIdx, records, rpc, local, fetched, err, before, tickPending, now>>
    /\ UNCHANGED <<mutex, running, tagIn, tagOut>>

\* handleRequest returns: the request and the reply are gone
handlerReturn ==
    /\ proc = "serving"
    /\ lastReq /= NoRequest
    /\ lastReq' = NoRequest
    /\ lastLookup' = <<>>
    /\ reply' = NewReply
    /\ written' = 0
    /\ UNCHANGED <<proc, initIdx, records, rpc, local, fetched, err, before,
                   tickPending, now>>
    /\ UNCHANGED <<mutex, running, tagIn, tagOut>>

-----------------------------------------------------------------------------
(* Requests *)

Question(name, qtype) == [Name |-> name, Qtype |-> qtype]

Request(questions) == [Question |-> questions]

\* labels joined by dots, then the served domain
RECURSIVE Join(_)
Join(labels) ==
    IF labels = <<>> THEN domain
    ELSE Head(labels) \o <<".">> \o Join(Tail(labels))

\* what may stand in front of a label: nothing, an index, or another label
Prefixes == { <<>>, << <<"0">> >>, << <<"1">> >>, << <<"2">> >>, << <<"-","1">> >>,
              << sDb >> }

\* the labels asked for; the empty label is one of them
Labels == { sWeb, sApi, sDb, sRole, sId1, <<"a","p","-","i">>, <<>> }

Suffixes == { <<>>, << sRole >> }

\* the question names: the apex and the names under it
Names == {domain} \cup { Join(p \o <<l>> \o s) : p \in Prefixes, l \in Labels, s \in Suffixes }

Qtypes == {"A", "NS", "SOA", "AAAA"}

\* names asked with every question type
TypedNames == { domain, Join(<<sWeb>>), Join(<< <<"-","1">>, sWeb >>) }

Questions == { Question(n, "A") : n \in Names }
             \cup { Question(n, q) : n \in TypedNames, q \in Qtypes }

\* questions that are put together in one request
PairedQuestions == { Question(Join(<<sWeb>>), "A"), Question(Join(<<sWeb, sRole>>), "A"),
                     Question(domain, "NS"), Question(Join(<<sDb>>), "AAAA") }

Requests == { Request(<<>>) }
            \cup { Request(<<q>>) : q \in Questions }
            \cup { Request(<<q1, q2>>) : q1 \in PairedQuestions, q2 \in PairedQuestions }

\* the requests that arrive while the caches are being refreshed
ServingRequests == { Request(<<Question(Join(<<sWeb>>), "A")>>),
                     Request(<<Question(Join(<< <<"0">>, sDb >>), "A")>>),
                     Request(<<Question(Join(<< <<"1">>, sApi, sRole >>), "A")>>) }

-----------------------------------------------------------------------------
(* The system: start-up, the background refreshes and the requests *)

Init ==
    /\ proc = "init"
    /\ initIdx = 1
    /\ records = [c \in CacheIds |-> EmptyMap]
    /\ rpc = [c \in CacheIds |-> "idle"]
    /\ local = [c \in CacheIds |-> EmptyMap]
    /\ fetched = [c \in CacheIds |-> NoFetch]
    /\ err = [c \in CacheIds |-> "nil"]
    /\ before = [c \in CacheIds |-> EmptyMap]
    /\ tickPending = [c \in CacheIds |-> FALSE]
    /\ now = 0
    /\ lastReq = NoRequest
    /\ lastLookup = <<>>
    /\ reply = NewReply
    /\ written = 0
    /\ mutex = [c \in CacheIds |-> "free"]
    /\ running = [c \in CacheIds |-> 0]
    /\ tagIn = <<>>
    /\ tagOut = <<>>

Serve == \E request \in ServingRequests : handleRequest(request)

Next ==
    \/ InitialRefresh
    \/ InitialRefreshReturned
    \/ \E c \in CacheIds : TaskRefresh(c)
    \/ \E c \in CacheIds : TaskRefreshReturned(c)
    \/ \E c \in CacheIds : NewSession(c)
    \/ \E c \in CacheIds : AssumeRole(c)
    \/ \E c \in CacheIds : NewRoleSession(c)
    \/ \E c \in CacheIds : FetchDatabases(c)
    \/ \E c \in CacheIds : FetchInstances(c)
    \/ \E c \in CacheIds : setRecords(c)
    \/ \E c \in CacheIds : Unlock(c)
    \/ Advance
    \/ Serve
    \/ handlerReturn

Spec == Init /\ [][Next]_vars

-----------------------------------------------------------------------------
(* Properties of refresh *)

\* a refresh() of cache c is between its entry and its call of setRecords
InProgress(c) ==
    rpc[c] \in {"session", "assume", "session2", "databases", "instances", "setRecords"}

Failed(c) == rpc[c] = "returned" /\ err[c] /= "nil"

Succeeded(c) == rpc[c] = "returned" /\ err[c] = "nil"

\* the keys of the map of cache c now, before the refresh and in the making
KeysOf(c) == DOMAIN records[c] \cup DOMAIN before[c] \cup DOMAIN local[c]

\* C1: when a refresh() has failed, at whichever step, every lookup
\* (tag-kind, label) on the cache returns the record list it returned before
\* the refresh started.
C1_FailedRefreshKeepsSnapshot ==
    \A c \in CacheIds :
        Failed(c) =>
            \A k \in KeysOf(c) : CacheLookup(c, k.tag, k.label) = MapGet(before[c], k)

\* a background refresh failed at the instance fetch, after the database
\* records were put in its local map, on a cache that held records
C1_Witness ==
    \E c \in CacheIds :
        /\ Failed(c)
        /\ err[c] = "DescribeInstances"
        /\ before[c] /= EmptyMap
        /\ local[c] /= EmptyMap
        /\ local[c] /= before[c]

\* the keys of the map a refresh() of cache c builds from the answers d and i
KeysBuilt ==
    [c \in CacheIds |->
        [d \in {x \in DBResponses(c) : ~DatabasesPanic(x)}, i \in InstanceResponses(c) |->
            DOMAIN BuildRecords(d, i, 0)]]

\* C2: a lookup on a cache whose refresh() is in progress returns the record
\* list of the map published before the refresh, and once the refresh has
\* succeeded that of the complete map it built; the published map is never
\* one holding only part of the keys of the new one.
C2_LookupSeesWholeSnapshot ==
    \A c \in CacheIds :
        /\ InProgress(c) =>
              \A k \in KeysOf(c) : CacheLookup(c, k.tag, k.label) = MapGet(before[c], k)
        /\ Succeeded(c) =>
              /\ \A k \in KeysOf(c) : CacheLookup(c, k.tag, k.label) = MapGet(local[c], k)
              /\ DOMAIN records[c] = KeysBuilt[c][fetched[c].db, fetched[c].inst]

\* a request was answered from the old map of a cache while its refresh had
\* fetched the databases and not yet the instances
C2_Witness ==
    \E c \in CacheIds :
        /\ rpc[c] = "instances"
        /\ local[c] /= EmptyMap
        /\ DOMAIN local[c] /= DOMAIN records[c]
        /\ lastReq /= NoRequest
        /\ lastLookup[1].result /= <<>>
        /\ \E j \in DOMAIN lastLookup[1].result :
              \E k \in DOMAIN before[c] :
                  \E i \in DOMAIN before[c][k] : before[c][k][i] = lastLookup[1].result[j]

\* the records with alias target a
WithCName(rs, a) == {i \in DOMAIN rs : rs[i].CName = a}

\* C7: after a successful refresh(), each fetched database instance with a
\* non-empty endpoint address has a record under (NAME, sanitize(identifier))
\* whose alias target is the address followed by a dot, whatever compute
\* instances were fetched with it.
C7_EveryDatabaseHasItsRecord ==
    \A c \in CacheIds :
        Succeeded(c) =>
            \A i \in DOMAIN fetched[c].db :
                LET r == fetched[c].db[i]
                IN  (r.Endpoint /= Nil /\ Deref(r.Endpoint).Address /= <<>>) =>
                        WithCName(CacheLookup(c, LOOKUP_NAME, sanitize(r.DBInstanceIdentifier)),
                                  Deref(r.Endpoint).Address \o <<".">>) /= {}

\* the instances of a DescribeInstances answer
RECURSIVE InstancesOf(_)
InstancesOf(reservations) ==
    IF reservations = <<>> THEN {}
    ELSE Range(Head(reservations)) \cup InstancesOf(Tail(reservations))

\* the address of an instance as a record carries it
AddressOf(instance) ==
    IF instance.PrivateIpAddress = Nil THEN NoIP
    ELSE ParseIP(Deref(instance.PrivateIpAddress))

\* the records of an instance's address that are not aliases
WithAddress(rs, ip) == {rs[i] : i \in {j \in DOMAIN rs : rs[j].PrivateIP = ip /\ rs[j].CName = <<>>}}

TagValues(instance, key) ==
    {instance.Tags[i].Value : i \in {j \in DOMAIN instance.Tags : instance.Tags[j].Key = key}}

\* every instance of the inventory
AllInstances ==
    UNION { InstancesOf(r) : r \in UNION { InstanceResponses(c) : c \in CacheIds } }

\* per instance: its address, and its Name and Role tag values sanitized
Expected ==
    [x \in AllInstances |->
        [ip    |-> AddressOf(x),
         names |-> { sanitize(v) : v \in TagValues(x, "Name") },
         roles |-> { sanitize(v) : v \in TagValues(x, "Role") }]]

\* C8: after a successful refresh(), every fetched instance has a record
\* under (NAME, instance id), under (NAME, sanitize(v)) for its Name tag v and
\* under (ROLE, sanitize(v)) for its Role tag v; with both tags, one and the
\* same record (the same address) is under the NAME and the ROLE key.
C8_EveryInstanceIsIndexed ==
    \A c \in CacheIds :
        Succeeded(c) =>
            \A x \in InstancesOf(fetched[c].inst) :
                LET e == Expected[x]
                IN  /\ WithAddress(CacheLookup(c, LOOKUP_NAME, x.InstanceId), e.ip) /= {}
                    /\ \A n \in e.names :
                          WithAddress(CacheLookup(c, LOOKUP_NAME, n), e.ip) /= {}
                    /\ \A r \in e.roles :
                          WithAddress(CacheLookup(c, LOOKUP_ROLE, r), e.ip) /= {}
                    /\ \A n \in e.names : \A r \in e.roles :
                          WithAddress(CacheLookup(c, LOOKUP_NAME, n), e.ip)
                          \cap WithAddress(CacheLookup(c, LOOKUP_ROLE, r), e.ip) /= {}

\* a refresh succeeded that fetched a database and an instance with a Name
\* tag that is not a DNS name as it stands, a Role tag and an address
C8_Witness ==
    \E c \in CacheIds :
        /\ Succeeded(c)
        /\ fetched[c].db /= <<>>
        /\ \E x \in InstancesOf(fetched[c].inst) :
              /\ AddressOf(x) /= NoIP
              /\ \E r \in TagValues(x, "Role") : sanitize(r) /= r
              /\ TagValues(x, "Name") /= {}

C18_FailedRefreshIsRetried ==
    [][\A c \in CacheIds :
          (Started(c) /\ rpc[c] /= "idle" /\ rpc'[c] /= rpc[c]) =>
              /\ proc' = proc
              /\ rpc'[c] /= "panic"
              /\ Failed(c) => rpc'[c] = "idle"]_vars

\* the steps of refresh() that exchange credentials or fetch the inventory
Network == {"session", "assume", "session2", "databases", "instances"}

\* C19: the lock of a cache is free while its refresh() exchanges
\* credentials or fetches the inventory, so that a lookup does not wait for
\* the network; it is held by the writer only between the replacement of
\* Cache.records and the return of setRecords.
C19_LockOnlyAroundTheSwap ==
    \A c \in CacheIds :
        /\ rpc[c] \in Network => mutex[c] = "free"
        /\ mutex[c] = "W" <=> rpc[c] = "unlock"
        /\ mutex[c] = "W" => records[c] = local[c]

\* a request was answered while the refresh of a background task waited for
\* the answer of DescribeDBInstances
C19_Witness ==
    \E c \in CacheIds :
        /\ Started(c)
        /\ rpc[c] = "databases"
        /\ lastReq /= NoRequest
        /\ written = 1
        /\ lastLookup[1].result /= <<>>

-----------------------------------------------------------------------------
(* The name server over the caches as start-up leaves them *)

\* the maps the initial refresh of cache c can publish at time t
Snapshots(c, t) ==
    { BuildRecords(d, i, t) :
        d \in {x \in DBResponses(c) : ~DatabasesPanic(x)}, i \in InstanceResponses(c) }

\* NewCaches has returned and main is listening: every cache holds what its
\* initial refresh published, every background task waits for its first tick
InitResolve ==
    /\ proc = "serving"
    /\ initIdx = NumCaches + 1
    /\ records \in { r \in [CacheIds -> UNION {Snapshots(c, 0) : c \in CacheIds}] :
                       \A c \in CacheIds : r[c] \in Snapshots(c, 0) }
    /\ rpc = [c \in CacheIds |-> "idle"]
    /\ local = [c \in CacheIds |-> EmptyMap]
    /\ fetched = [c \in CacheIds |-> NoFetch]
    /\ err = [c \in CacheIds |-> "nil"]
    /\ before = [c \in CacheIds |-> EmptyMap]
    /\ tickPending = [c \in CacheIds |-> FALSE]
    /\ now = 0
    /\ lastReq = NoRequest
    /\ lastLookup = <<>>
    /\ reply = NewReply
    /\ written = 0
    /\ mutex = [c \in CacheIds |-> "free"]
    /\ running = [c \in CacheIds |-> 0]
    /\ tagIn = <<>>
    /\ tagOut = <<>>

Resolve == \E request \in Requests : handleRequest(request)

\* the readings of time.Now() at which requests arrive: within the last ten
\* seconds of a record published at 0 (9.5 s, 9 s and half a second before
\* its ValidUntil), at its ValidUntil, a millisecond and a second after it,
\* and a day later
Instants == {50500, 51000, 59500, 60000, 60001, 61000, 86400000}

\* time passes between two requests; every refresh since start-up has
\* failed, so the caches hold what start-up published
Elapse ==
    /\ proc = "serving"
    /\ lastReq = NoRequest
    /\ \E t \in Instants : t > now /\ now' = t
    /\ UNCHANGED <<proc, initIdx, records, rpc, local, fetched, err, before,
                   tickPending, lastReq, lastLookup, reply, written>>
    /\ UNCHANGED <<mutex, running, tagIn, tagOut>>

NextResolve ==
    \/ Resolve
    \/ handlerReturn
    \/ Elapse

SpecResolve == InitResolve /\ [][NextResolve]_vars

-----------------------------------------------------------------------------
(* sanitize on its own: tag values and database identifiers *)

\* the longest tag value given to sanitize
MaxTagLen == 3

\* the characters of the tag values: letters of both cases, a digit, the two
\* marks a DNS name may hold, and two it may not
Alphabet == {"a", "B", "9", "_", "-", " ", "."}

TagValues0 == UNION { [1..n -> Alphabet] : n \in 0..MaxTagLen }

\* a tag value arrives; sanitize has not been called on it
InitSanitize ==
    /\ tagIn \in TagValues0
    /\ tagOut = Nil
    /\ proc = "init"
    /\ initIdx = 1
    /\ records = [c \in CacheIds |-> EmptyMap]
    /\ rpc = [c \in CacheIds |-> "idle"]
    /\ local = [c \in CacheIds |-> EmptyMap]
    /\ fetched = [c \in CacheIds |-> NoFetch]
    /\ err = [c \in CacheIds |-> "nil"]
    /\ before = [c \in CacheIds |-> EmptyMap]
    /\ tickPending = [c \in CacheIds |-> FALSE]
    /\ now = 0
    /\ lastReq = NoRequest
    /\ lastLookup = <<>>
    /\ reply = NewReply
    /\ written = 0
    /\ mutex = [c \in CacheIds |-> "free"]
    /\ running = [c \in CacheIds |-> 0]

\* name := sanitize(*tag.Value)
Sanitize ==
    /\ tagOut = Nil
    /\ tagOut' = Ptr(sanitize(tagIn))
    /\ UNCHANGED <<proc, initIdx, records, rpc, local, fetched, err, before,
                   tickPending, now, lastReq, lastLookup, reply, written,
                   mutex, running, tagIn>>

\* what sanitize returned is given to it again
SanitizeAgain ==
    /\ tagOut /= Nil
    /\ tagIn' = Deref(tagOut)
    /\ tagOut' = Nil
    /\ UNCHANGED <<proc, initIdx, records, rpc, local, fetched, err, before,
                   tickPending, now, lastReq, lastLookup, reply, written,
                   mutex, running>>

NextSanitize ==
    \/ Sanitize
    \/ SanitizeAgain

SpecSanitize == InitSanitize /\ [][NextSanitize]_vars

\* a character a sanitized label may hold
IsLabelChar(c) == c \in Range(Lower) \cup Range(Digits) \cup {"-", "_"}

\* y from position i on, every character that is not a label character
\* dropped, and a hyphen put where a run of such characters begins
RECURSIVE RunsToHyphens(_, _)
RunsToHyphens(y, i) ==
    IF i > Len(y) THEN <<>>
    ELSE (IF IsLabelChar(y[i]) THEN <<y[i]>>
          ELSE IF i = 1 \/ IsLabelChar(y[i - 1]) THEN <<"-">>
          ELSE <<>>)
         \o RunsToHyphens(y, i + 1)

\* C16: sanitize(sanitize(x)) = sanitize(x); every character of sanitize(x)
\* is a lower-case letter, a digit, a hyphen or an underscore; and
\* sanitize(x) is x in lower case with each maximal run of other characters
\* replaced by one hyphen.
C16_SanitizeIsIdempotent ==
    tagOut /= Nil =>
        /\ sanitize(Deref(tagOut)) = Deref(tagOut)
        /\ \A i \in DOMAIN Deref(tagOut) : IsLabelChar(Deref(tagOut)[i])
        /\ Deref(tagOut) = RunsToHyphens(ToLower(tagIn), 1)

\* sanitize was given an upper-case letter followed by a run of two
\* characters that are not allowed
C16_Witness ==
    /\ tagIn = <<"B", " ", ".">>
    /\ tagOut = Ptr(<<"b", "-">>)

-----------------------------------------------------------------------------
(* Properties of the name resolver and of the handler *)

\* the request last handled asked the one question q
Asked(q) == lastReq = <<Request(<<q>>)>>

\* the records of (tag, label) of the first n caches, in their order
RECURSIVE FirstCaches(_, _, _)
FirstCaches(n, tag, label) ==
    IF n = 0 THEN <<>>
    ELSE FirstCaches(n - 1, tag, label) \o MapGet(records[n], Key(tag, label))

\* the aggregated record list of (tag, label): the lists of the caches of
\* the configured accounts in the order of the configuration, then the list
\* of the cache of the main account
Aggregated(tag, label) ==
    FirstCaches(Len(Accounts), tag, label) \o MapGet(records[NumCaches], Key(tag, label))

Returned(rs) == [called |-> TRUE, panic |-> FALSE, result |-> rs]

\* the labels that are neither empty nor the word "role"
PlainLabels == Labels \ {<<>>, sRole}

\* C3: for <label>.role.<domain> the resolver returns the whole aggregated
\* record list of (ROLE, label).
C3_RoleNameGivesTheRole ==
    \A l \in PlainLabels :
        Asked(Question(Join(<<l, sRole>>), "A")) =>
            lastLookup[1] = Returned(Aggregated(LOOKUP_ROLE, l))

\* the indices asked for, as text and as number
Indices == { [text |-> <<"0">>, n |-> 0], [text |-> <<"1">>, n |-> 1],
             [text |-> <<"2">>, n |-> 2] }

\* the record at 0-based position n of rs, or nothing when rs is too short
Nth(rs, n) == IF n >= Len(rs) THEN <<>> ELSE <<rs[n + 1]>>

\* C4: for n.<label>.<domain> and n.<label>.role.<domain>, n a non-negative
\* integer, the resolver returns nothing when n is at least the length of
\* the aggregated record list of (NAME, label), resp. (ROLE, label), and
\* else the one record at 0-based position n of it.  (In the first form the
\* label is not the word "role": n.role.<domain> is a name of the form
\* <label>.role.<domain>.)
C4_IndexedNameGivesTheNth ==
    \A x \in Indices :
        /\ \A l \in PlainLabels :
              Asked(Question(Join(<<x.text, l>>), "A")) =>
                  lastLookup[1] = Returned(Nth(Aggregated(LOOKUP_NAME, l), x.n))
        /\ \A l \in Labels \ {<<>>} :
              Asked(Question(Join(<<x.text, l, sRole>>), "A")) =>
                  lastLookup[1] = Returned(Nth(Aggregated(LOOKUP_ROLE, l), x.n))

\* 1.web.<domain> was asked with three records under (NAME, web), and the
\* second of them was returned
C4_Witness ==
    /\ Asked(Question(Join(<< <<"1">>, sWeb >>), "A"))
    /\ Len(Aggregated(LOOKUP_NAME, sWeb)) = 3
    /\ Aggregated(LOOKUP_NAME, sWeb)[1] /= Aggregated(LOOKUP_NAME, sWeb)[2]
    /\ lastLookup[1].result = <<Aggregated(LOOKUP_NAME, sWeb)[2]>>

\* the labels of a name without a last label "role"
WithoutRole(ls) ==
    IF ls /= <<>> /\ ls[Len(ls)] = sRole THEN SubSeq(ls, 1, Len(ls) - 1) ELSE ls

\* ... and then without a first label that is a non-negative integer
WithoutIndex(ls) == IF ls /= <<>> /\ AllDigits(ls[1]) THEN Tail(ls) ELSE ls

\* what is left of the labels has two or more labels, or an empty one
LeavesMalformed(ls) ==
    LET rest == WithoutIndex(WithoutRole(ls))
    IN  Len(rest) >= 2 \/ \E i \in DOMAIN rest : rest[i] = <<>>

\* C5: for a name that leaves two or more labels or an empty label, the
\* resolver returns normally with no record, and the handler replies with
\* the SOA in the authority section.
C5_MalformedNameGivesNoData ==
    \A p \in Prefixes : \A l \in Labels : \A s \in Suffixes :
        (LeavesMalformed(p \o <<l>> \o s) /\ Asked(Question(Join(p \o <<l>> \o s), "A"))) =>
            /\ lastLookup[1] = Returned(<<>>)
            /\ written = 1
            /\ reply.Answer = <<>>
            /\ reply.Ns = <<SOA(now)>>

\* C6: for <label>.<domain> the resolver returns the lists of (NAME, label)
\* of all caches one after the other, configured accounts in their order,
\* main account last, each list in its own order, duplicates kept.
C6_NameGivesAllCachesInOrder ==
    /\ awsAccount(NumCaches) = MainAccount
    /\ \A l \in Labels :
          Asked(Question(Join(<<l>>), "A")) =>
              lastLookup[1] = Returned(Aggregated(LOOKUP_NAME, l))

\* web.<domain> was asked and three records came back: one of the
\* configured account, then two of the main account that are in a different
\* order than their addresses, the last equal to the first
C6_Witness ==
    /\ Asked(Question(Join(<<sWeb>>), "A"))
    /\ Len(lastLookup[1].result) = 3
    /\ Len(MapGet(records[1], Key(LOOKUP_NAME, sWeb))) = 1
    /\ lastLookup[1].result[1] = lastLookup[1].result[3]
    /\ lastLookup[1].result[1] /= lastLookup[1].result[2]

\* the answers of the questions qs one after the other
RECURSIVE AllAnswers(_)
AllAnswers(qs) ==
    IF qs = <<>> THEN <<>> ELSE Answer(Head(qs), now).answers \o AllAnswers(Tail(qs))

\* C10: one reply is written per request and it is authoritative; its
\* answer section holds the answers of the questions that have any, and its
\* authority section one SOA for each question that has none.
C10_OneReplyPerRequest ==
    lastReq /= NoRequest =>
        LET qs == lastReq[1].Question
        IN  /\ written = 1
            /\ reply.Authoritative
            /\ reply.Answer = AllAnswers(qs)
            /\ reply.Ns = [j \in 1..Cardinality({i \in DOMAIN qs :
                                                   Answer(qs[i], now).answers = <<>>})
                             |-> SOA(now)]

\* the records of rs with an address and no alias target
OnlyAddress(rs, ip) == {i \in DOMAIN rs : rs[i].PrivateIP = ip /\ rs[i].CName = <<>>}

\* the records of rs with an alias target and no address
OnlyCName(rs, a) == {i \in DOMAIN rs : rs[i].CName = a /\ rs[i].PrivateIP = NoIP}

AnswersA(as, ip) == {i \in DOMAIN as : as[i].Hdr.Rrtype = "A" /\ as[i].A = ip}

AnswersCNAME(as, a) == {i \in DOMAIN as : as[i].Hdr.Rrtype = "CNAME" /\ as[i].Target = a}

\* C11: for a question of type A, a resolved record with neither an alias
\* target nor an address gives no answer: the reply has as many answers as
\* there are resolved records with one of the two, and no A answer of it is
\* without an address.
C11_RecordWithoutAddressIsSkipped ==
    \A q \in Questions :
        (q.Qtype = "A" /\ Asked(q) /\ written = 1) =>
            LET rs == lastLookup[1].result
            IN  /\ Len(reply.Answer) =
                      Cardinality({i \in DOMAIN rs :
                                     rs[i].CName /= <<>> \/ rs[i].PrivateIP /= NoIP})
                /\ AnswersA(reply.Answer, NoIP) = {}

\* C12: for a question of type A, the records with only an address ip give
\* as many A answers with ip, the records with only an alias target a give
\* as many CNAME answers with a, and there are no more answers than records
\* (no record gives two); for a question of a type other than A, NS and SOA
\* the resolved records give no answer.
C12_OneAnswerPerRecord ==
    \A q \in Questions :
        (Asked(q) /\ written = 1 /\ q.Qtype \notin {"NS", "SOA"}) =>
            LET rs == lastLookup[1].result
            IN  IF q.Qtype = "A"
                THEN /\ \A i \in DOMAIN rs :
                          /\ rs[i].PrivateIP /= NoIP /\ rs[i].CName = <<>> =>
                                Cardinality(AnswersA(reply.Answer, rs[i].PrivateIP))
                                = Cardinality(OnlyAddress(rs, rs[i].PrivateIP))
                          /\ rs[i].CName /= <<>> /\ rs[i].PrivateIP = NoIP =>
                                Cardinality(AnswersCNAME(reply.Answer, rs[i].CName))
                                = Cardinality(OnlyCName(rs, rs[i].CName))
                     /\ \A i \in DOMAIN reply.Answer :
                          \/ /\ reply.Answer[i].Hdr.Rrtype = "A"
                             /\ OnlyAddress(rs, reply.Answer[i].A) /= {}
                                \/ reply.Answer[i].A = NoIP
                          \/ /\ reply.Answer[i].Hdr.Rrtype = "CNAME"
                             /\ OnlyCName(rs, reply.Answer[i].Target) /= {}
                     /\ Len(reply.Answer) <= Len(rs)
                ELSE reply.Answer = <<>>

\* db.<domain> was asked with type A while one cache held a database and
\* another an instance of that name: a CNAME and an A answer came back
C12_Witness ==
    /\ Asked(Question(Join(<<sDb>>), "A"))
    /\ \E i \in DOMAIN reply.Answer : reply.Answer[i].Hdr.Rrtype = "CNAME"
    /\ \E i \in DOMAIN reply.Answer : reply.Answer[i].Hdr.Rrtype = "A"

\* C13: a record whose ValidUntil is earlier than now is still returned by
\* the lookup of its name, and the answer made from it (one answer per
\* record, in the order of the records) has TTL 10, however long ago the
\* record expired.
C13_ExpiredRecordIsServedWithTTL10 ==
    \A l \in Labels :
        (Asked(Question(Join(<<l>>), "A")) /\ written = 1) =>
            LET rs == lastLookup[1].result
                ag == Aggregated(LOOKUP_NAME, l)
            IN  /\ \A i \in DOMAIN ag :
                      now > ag[i].ValidUntil => (i \in DOMAIN rs /\ rs[i] = ag[i])
                /\ Len(reply.Answer) = Len(rs)
                /\ \A i \in DOMAIN rs :
                      now > rs[i].ValidUntil => reply.Answer[i].Hdr.Ttl = 10

\* web.<domain> was asked a day after its instance records expired
C13_Witness ==
    /\ Asked(Question(Join(<<sWeb>>), "A"))
    /\ now = 86400 * Second
    /\ \E i \in DOMAIN lastLookup[1].result :
          /\ lastLookup[1].result[i].ValidUntil = TTL
          /\ reply.Answer[i].Hdr.Ttl = 10

\* C14: the TTL of an A or CNAME answer is never less than 10 seconds.
C14_TTLAtLeastTen ==
    (lastReq /= NoRequest /\ written = 1) =>
        \A i \in DOMAIN reply.Answer :
            reply.Answer[i].Hdr.Rrtype \in {"A", "CNAME"} => reply.Answer[i].Hdr.Ttl >= 10

\* C15: an NS question for the served domain itself gets one NS answer
\* naming the configured hostname with TTL 300; an SOA question for it gets
\* one SOA answer (Ns the hostname, TTL 60, refresh 86400, retry 7200, expire
\* 86400, minimum 60); an NS or SOA question for any other name gets no
\* answer; none of them calls the resolver.
C15_ApexOnly ==
    /\ Asked(Question(domain, "NS")) =>
          /\ reply.Answer = << [Hdr |-> [Name |-> domain, Rrtype |-> "NS",
                                         Class |-> "IN", Ttl |-> 300],
                                Ns  |-> HostnameFlag \o <<".">>] >>
          /\ lastLookup = <<NotCalled>>
    /\ Asked(Question(domain, "SOA")) =>
          /\ Len(reply.Answer) = 1
          /\ reply.Answer[1].Hdr = [Name |-> domain, Rrtype |-> "SOA",
                                    Class |-> "IN", Ttl |-> 60]
          /\ reply.Answer[1].Ns = HostnameFlag \o <<".">>
          /\ reply.Answer[1].Refresh = 86400
          /\ reply.Answer[1].Retry = 7200
          /\ reply.Answer[1].Expire = 86400
          /\ reply.Answer[1].Minttl = 60
          /\ lastLookup = <<NotCalled>>
    /\ \A n \in TypedNames \ {domain} : \A t \in {"NS", "SOA"} :
          Asked(Question(n, t)) =>
              /\ written = 1
              /\ reply.Answer = <<>>
              /\ lastLookup = <<NotCalled>>

\* the served domain was asked with type SOA while the caches held records
C15_Witness ==
    /\ Asked(Question(domain, "SOA"))
    /\ Len(reply.Answer) = 1
    /\ \A c \in CacheIds : records[c] /= EmptyMap

\* C17, as claimed: role.<domain> is a role suffix with no label left, a
\* malformed name: the resolver returns no record and reads no cache.
C17_LoneRoleIsMalformed ==
    Asked(Question(Join(<<sRole>>), "A")) => lastLookup[1] = Returned(<<>>)

\* C17, amended: "role" is a role suffix only behind another label;
\* role.<domain> is the name "role", and the resolver returns the aggregated
\* record list of (NAME, "role").
C17_LoneRoleIsAName ==
    Asked(Question(Join(<<sRole>>), "A")) =>
        lastLookup[1] = Returned(Aggregated(LOOKUP_NAME, sRole))

\* role.<domain> was asked while an instance was named "role", and its
\* record came back
C17_Witness ==
    /\ Asked(Question(Join(<<sRole>>), "A"))
    /\ lastLookup[1].result /= <<>>
    /\ Aggregated(LOOKUP_ROLE, sRole) = <<>>

====
